---- MODULE Spec2Model ----
(***************************************************************************)
(* A model of pytypedecl's parser front end (src/parse/parser.py):         *)
(*   - PyLexer, the indentation-sensitive tokenizer, driven either on its  *)
(*     own (lexer.input / lexer.token) or by TypeDeclParser.Parse;         *)
(*   - the LR parser generated from the p_* productions.                   *)
(*                                                                         *)
(* The source text is supplied to the tokenizer one lexeme at a time: each *)
(* handler action draws the text matched at lexpos from a small set of     *)
(* lexemes.  A lexeme is a sequence of items; an item is one character     *)
(* ("NL" = \n, "CR" = \r, "SP" = space, "TAB" = \t, "BQ" = back-tick,     *)
(* "SQ" = single quote, "BS" = backslash, "(", "<", ...) or one identifier *)
(* word (a maximal run of identifier characters, kept atomic).             *)
(***************************************************************************)
EXTENDS Integers, Sequences, FiniteSets, TLC

VARIABLES
  \* ---- PyLexer (parser.py 34-196) and ply's lexer object
  indent_stack,     \* self.indent_stack
  open_brackets,    \* self.open_brackets
  queued_dedents,   \* self.queued_dedents
  lineno,           \* self.lexer.lineno (ply never resets it)
  pending,          \* text between lexpos and the end of the last match
                    \* (non-empty only after t.lexer.skip(-1))
  \* ---- the caller of the tokenizer
  mode,             \* "idle" | "token" (lexer used alone) | "parse" (Parse)
  status,           \* "idle" | "running" | "eof" | "accepted" | an exception
  msg,              \* message of the exception raised
  pstack,           \* the LR parser's position in the grammar
  \* ---- observation of the token stream
  last,             \* the last handler call: [rule, type], see Called
  balance,          \* INDENT tokens minus DEDENT tokens emitted so far in
                    \* this invocation
  deepest,          \* the longest indent_stack of this invocation
  tabOutside,       \* a tab was consumed outside a string literal or comment
  left_over,        \* the invocation began on a lexer that the one before
                    \* had left with indentation, brackets or DEDENTs open
  \* ---- the definitions of one scope (p_alldefs_*, p_funcdefs_*)
  scope,            \* "start" | "module" | "class" | "unit" | "classdef"
  defs,             \* the list collected so far: p[1] of unit, p[7] of classdef
  result,           \* what p_unit or p_classdef returned or raised
  \* ---- one funcdef (p_params_*, p_body_*, p_funcdef)
  fpos,             \* how far the funcdef has been reduced
  fparams,          \* p[5]: the Params built so far
  written,          \* the parameter list as written: "NAME", "COMMA", "DOTS"
  stmts,            \* the mutator statements of the body, as written
  mstack,           \* the mutators on the parser stack, not yet part of body
  body,             \* the value of body / maybe_body
  fresult,          \* what p_funcdef returned, or what was raised
  \* ---- one type expression (p_type_*)
  tstack,           \* the parser stack: [sym, val] entries
  la,               \* the lookahead token, [sym |-> "none"] when not read yet
  src,              \* the tokens read so far
  red,              \* the last reduction by p_type_or / p_type_and
  tstatus           \* "parsing" | "accepted" | "error"

lexvars == <<indent_stack, open_brackets, queued_dedents, lineno, pending,
             mode, status, msg, pstack, last, balance, deepest, tabOutside, left_over>>

\* ------------------------------------------------------------------ bounds
MaxSpaces == 3      \* widest indentation offered to the tokenizer
MaxBrackets == 1    \* deepest bracket nesting offered
MaxIndents == 3     \* deepest indentation offered (entries pushed on the stack)
MaxLineno == 5      \* cap of lexer.lineno

\* ------------------------------------------------------------ sequences
Last(s) == s[Len(s)]
Front(s) == SubSeq(s, 1, Len(s) - 1)

\* str.count(c)
count(v, c) == Cardinality({i \in 1..Len(v) : v[i] = c})

\* str.replace(c, '')
remove(v, c) == SelectSeq(v, LAMBDA x : x # c)

\* str.rfind(c): the 0-based index of the last c, or -1
rfind(v, c) ==
  IF \E i \in 1..Len(v) : v[i] = c
  THEN (CHOOSE i \in 1..Len(v) : v[i] = c /\ \A j \in (i+1)..Len(v) : v[j] # c) - 1
  ELSE -1

\* ---------------------------------------------------------------- lexemes
reserved == {"class", "def", "pass", "and", "or", "nothing", "raises", "extends"}

Words == reserved \cup {"a"}

WsItems == {"NL", "CR", "SP"}

Spaces(k) == [i \in 1..k |-> "SP"]

\* The whitespace runs offered: line breaks (with and without \r and blank
\* lines) followed by indentation, indentation alone, and a run with a \r
\* inside the indentation.
WsRuns ==
  ({p \o Spaces(k) : p \in {<<>>, <<"NL">>, <<"CR", "NL">>, <<"NL", "SP", "NL">>},
                     k \in 0..MaxSpaces}
   \cup {<<"NL", "SP", "CR", "SP">>}) \ {<<>>}

Lexemes ==
  WsRuns
  \cup {<<w>> : w \in Words}
  \cup {<<"BQ", x, "BQ">> : x \in {"def", "TAB", "NL"}}
  \cup {<<"SQ", x, "SQ">> : x \in {"a", "TAB", "NL"}}
  \cup {<<"SQ", "BS", "NL", "SQ">>}                 \* backslash, newline
  \cup {<<"#">>, <<"#", "TAB">>}
  \cup {<<"1">>}
  \cup {<<"<">>, <<">">>, <<"(">>, <<")">>, <<"TAB">>, <<"-", ">">>, <<"@">>,
        <<":">>, <<":", "=">>, <<",">>, <<".">>, <<"?">>, <<"$">>, <<"BQ">>}

\* The regular expressions of the token rules, as predicates on a lexeme.
re_WHITESPACE(v) == Len(v) >= 1 /\ \A i \in 1..Len(v) : v[i] \in WsItems
re_NAME(v) ==
  \/ Len(v) = 1 /\ v[1] \in Words
  \/ Len(v) >= 2 /\ v[1] = "BQ" /\ v[Len(v)] = "BQ"
     /\ \A i \in 2..(Len(v) - 1) : v[i] # "BQ"
re_STRING(v) ==
  Len(v) >= 2 /\ v[1] = "SQ" /\ v[Len(v)] = "SQ"
  /\ \A i \in 2..(Len(v) - 1) : v[i] # "SQ"
re_NUMBER(v) == v = <<"1">>
re_COMMENT(v) == Len(v) >= 1 /\ v[1] = "#" /\ \A i \in 2..Len(v) : v[i] # "NL"

\* ply's master regular expression: the function rules in the order of their
\* definition, then the string rules, longest expression first; the first
\* alternative that matches at lexpos wins, t_error when none does.
lexre(v) ==
  CASE v = <<"<">> -> "LBRACKET"
    [] v = <<">">> -> "RBRACKET"
    [] v = <<"(">> -> "LPAREN"
    [] v = <<")">> -> "RPAREN"
    [] v = <<"TAB">> -> "TAB"
    [] re_WHITESPACE(v) -> "WHITESPACE"
    [] re_NAME(v) -> "NAME"
    [] re_STRING(v) -> "STRING"
    [] re_NUMBER(v) -> "NUMBER"
    [] re_COMMENT(v) -> "COMMENT"
    [] v = <<"?">> -> "QUESTIONMARK"
    [] v = <<".">> -> "DOT"
    [] v = <<"-", ">">> -> "ARROW"
    [] v = <<":", "=">> -> "COLONEQUALS"
    [] v = <<"@">> -> "AT"
    [] v = <<":">> -> "COLON"
    [] v = <<",">> -> "COMMA"
    [] OTHER -> "error"

Matched(r) == {v \in Lexemes : lexre(v) = r}

\* Whether lexeme v can be what the master expression matches right after the
\* previous match: every rule matches greedily, so the text after a match
\* does not continue it.
CanFollow(v) ==
  CASE last.rule = "WHITESPACE" -> ~re_WHITESPACE(v)
    [] last.rule = "word" -> ~(v[1] \in Words \cup {"1", "."})
    [] last.rule = "NUMBER" -> ~(v[1] \in {"1", "."})
    [] last.rule = "COMMENT" -> v[1] = "NL"
    [] OTHER -> TRUE

\* --------------------------------------------------- the grammar (yacc)
\* The parser's position is a stack of frames, innermost last.  A frame names
\* a production and how far it has been recognised; the frames "constantdef",
\* "template_extends", "parent_list", "param_type", "return", "exceptions",
\* "mutator", "paren" and "parameters" are on top only when the type
\* expression they wait for is complete.
Err == <<"error">>
Top(st) == st[Len(st)]
Repl(st, fs) == Front(st) \o fs

RECURSIVE yacc(_, _)
yacc(st, tok) ==
  LET top == Top(st) IN
  \* unit : alldefs ; alldefs : alldefs <def> |
  \* ("alldefs1": one definition so far, "alldefs2": two or more)
  CASE top \in {"alldefs", "alldefs1", "alldefs2"} ->
         LET more == IF top = "alldefs" THEN "alldefs1" ELSE "alldefs2" IN
         CASE tok = "NAME" -> <<more, "constantdef1">>
           [] tok = "CLASS" -> <<more, "classdef1">>
           [] tok = "DEF" -> <<more, "funcdef1">>
           [] tok = "$end" -> <<"accept", top>>
           [] OTHER -> Err
    \* constantdef : NAME COLON type
    [] top = "constantdef1" ->
         IF tok = "COLON" THEN Repl(st, <<"constantdef", "type0">>) ELSE Err
    [] top = "constantdef" -> yacc(Front(st), tok)
    \* classdef : CLASS template NAME parents COLON INDENT class_funcs DEDENT
    [] top = "classdef1" ->
         CASE tok = "LBRACKET" -> Repl(st, <<"classdef2", "templates0">>)
           [] tok = "NAME" -> Repl(st, <<"classdef3">>)
           [] OTHER -> Err
    [] top = "classdef2" ->
         IF tok = "NAME" THEN Repl(st, <<"classdef3">>) ELSE Err
    [] top = "classdef3" ->
         CASE tok = "LPAREN" -> Repl(st, <<"classdef4", "parent_list", "type0">>)
           [] tok = "COLON" -> Repl(st, <<"classdef5">>)
           [] OTHER -> Err
    [] top = "classdef4" ->
         IF tok = "COLON" THEN Repl(st, <<"classdef5">>) ELSE Err
    [] top = "classdef5" ->
         IF tok = "INDENT" THEN Repl(st, <<"class_funcs">>) ELSE Err
    \* class_funcs : funcdefs | PASS
    [] top = "class_funcs" ->
         IF tok = "PASS" THEN Repl(st, <<"classdef_DEDENT">>)
         ELSE yacc(Repl(st, <<"funcdefs">>), tok)
    [] top = "classdef_DEDENT" ->
         IF tok = "DEDENT" THEN Front(st) ELSE Err
    \* funcdefs : funcdefs funcdef | funcdefs constantdef |
    [] top = "funcdefs" ->
         CASE tok = "NAME" -> st \o <<"constantdef1">>
           [] tok = "DEF" -> st \o <<"funcdef1">>
           [] tok = "DEDENT" -> Front(st)
           [] OTHER -> Err
    \* parents : LPAREN parent_list RPAREN | ; parent_list : parent_list COMMA type | type
    [] top = "parent_list" ->
         CASE tok = "COMMA" -> st \o <<"type0">>
           [] tok = "RPAREN" -> Front(st)
           [] OTHER -> Err
    \* template : LBRACKET templates RBRACKET | ; template_item : NAME | NAME EXTENDS type
    [] top = "templates0" ->
         IF tok = "NAME" THEN Repl(st, <<"template_item">>) ELSE Err
    [] top = "template_item" ->
         CASE tok = "EXTENDS" -> Repl(st, <<"template_extends", "type0">>)
           [] tok = "COMMA" -> Repl(st, <<"templates0">>)
           [] tok = "RBRACKET" -> Front(st)
           [] OTHER -> Err
    [] top = "template_extends" ->
         CASE tok = "COMMA" -> Repl(st, <<"templates0">>)
           [] tok = "RBRACKET" -> Front(st)
           [] OTHER -> Err
    \* funcdef : DEF template NAME LPAREN params RPAREN return raises signature maybe_body
    [] top = "funcdef1" ->
         CASE tok = "LBRACKET" -> Repl(st, <<"funcdef2", "templates0">>)
           [] tok = "NAME" -> Repl(st, <<"funcdef3">>)
           [] OTHER -> Err
    [] top = "funcdef2" ->
         IF tok = "NAME" THEN Repl(st, <<"funcdef3">>) ELSE Err
    [] top = "funcdef3" ->
         IF tok = "LPAREN" THEN Repl(st, <<"params0">>) ELSE Err
    \* params : params COMMA param | params COMMA DOT DOT DOT | param | DOT DOT DOT |
    [] top = "params0" ->
         CASE tok = "NAME" -> Repl(st, <<"param">>)
           [] tok = "DOT" -> Repl(st, <<"dots1">>)
           [] tok = "COMMA" -> Repl(st, <<"params_COMMA">>)
           [] tok = "RPAREN" -> Repl(st, <<"return0">>)
           [] OTHER -> Err
    [] top = "params_COMMA" ->
         CASE tok = "NAME" -> Repl(st, <<"param">>)
           [] tok = "DOT" -> Repl(st, <<"dots1">>)
           [] OTHER -> Err
    [] top = "dots1" -> IF tok = "DOT" THEN Repl(st, <<"dots2">>) ELSE Err
    [] top = "dots2" -> IF tok = "DOT" THEN Repl(st, <<"params">>) ELSE Err
    [] top = "params" ->
         CASE tok = "COMMA" -> Repl(st, <<"params_COMMA">>)
           [] tok = "RPAREN" -> Repl(st, <<"return0">>)
           [] OTHER -> Err
    \* param : NAME | NAME COLON type
    [] top = "param" ->
         CASE tok = "COLON" -> Repl(st, <<"param_type", "type0">>)
           [] tok = "COMMA" -> Repl(st, <<"params_COMMA">>)
           [] tok = "RPAREN" -> Repl(st, <<"return0">>)
           [] OTHER -> Err
    [] top = "param_type" ->
         CASE tok = "COMMA" -> Repl(st, <<"params_COMMA">>)
           [] tok = "RPAREN" -> Repl(st, <<"return0">>)
           [] OTHER -> Err
    \* return : ARROW type |
    [] top = "return0" ->
         IF tok = "ARROW" THEN Repl(st, <<"return", "type0">>)
         ELSE yacc(Repl(st, <<"raises0">>), tok)
    [] top = "return" -> yacc(Repl(st, <<"raises0">>), tok)
    \* raises : RAISES exceptions | ; exceptions : exception | exceptions COMMA exception
    [] top = "raises0" ->
         IF tok = "RAISES" THEN Repl(st, <<"exceptions", "type0">>)
         ELSE yacc(Repl(st, <<"signature0">>), tok)
    [] top = "exceptions" ->
         IF tok = "COMMA" THEN st \o <<"type0">>
         ELSE yacc(Repl(st, <<"signature0">>), tok)
    \* signature : AT STRING |
    [] top = "signature0" ->
         IF tok = "AT" THEN Repl(st, <<"signature_STRING">>)
         ELSE yacc(Repl(st, <<"maybe_body">>), tok)
    [] top = "signature_STRING" ->
         IF tok = "STRING" THEN Repl(st, <<"maybe_body">>) ELSE Err
    \* maybe_body : COLON INDENT body DEDENT |
    [] top = "maybe_body" ->
         IF tok = "COLON" THEN Repl(st, <<"maybe_body_INDENT">>)
         ELSE yacc(Front(st), tok)
    [] top = "maybe_body_INDENT" ->
         IF tok = "INDENT" THEN Repl(st, <<"body0">>) ELSE Err
    \* body : mutator | mutator body ; mutator : NAME COLONEQUALS type
    [] top = "body0" ->
         IF tok = "NAME" THEN Repl(st, <<"body1", "mutator1">>) ELSE Err
    [] top = "mutator1" ->
         IF tok = "COLONEQUALS" THEN Repl(st, <<"mutator", "type0">>) ELSE Err
    [] top = "mutator" -> yacc(Front(st), tok)
    [] top = "body1" ->       \* one mutator: p_body_1 on DEDENT
         CASE tok = "NAME" -> Repl(st, <<"body2", "mutator1">>)
           [] tok = "DEDENT" -> Front(st)
           [] OTHER -> Err
    [] top = "body2" ->       \* several: p_body_multiple adds a Mutator to a list
         CASE tok = "NAME" -> Repl(st, <<"body2", "mutator1">>)
           [] tok = "DEDENT" -> <<"TypeError">>
           [] OTHER -> Err
    \* type : type AND type | type OR type | NAME LBRACKET parameters RBRACKET
    \*      | NAME LBRACKET parameters COMMA RBRACKET | LPAREN type RPAREN
    \*      | NAME | QUESTIONMARK | NOTHING | scalar ; scalar : STRING | NUMBER
    [] top = "type0" ->
         CASE tok = "NAME" -> Repl(st, <<"typeNAME">>)
           [] tok \in {"QUESTIONMARK", "NOTHING", "STRING", "NUMBER"} ->
                Repl(st, <<"type1">>)
           [] tok = "LPAREN" -> Repl(st, <<"paren", "type0">>)
           [] OTHER -> Err
    [] top = "typeNAME" ->
         CASE tok = "LBRACKET" -> Repl(st, <<"parameters", "type0">>)
           [] tok \in {"AND", "OR"} -> Repl(st, <<"type0">>)
           [] OTHER -> yacc(Front(st), tok)
    [] top = "type1" ->
         IF tok \in {"AND", "OR"} THEN Repl(st, <<"type0">>)
         ELSE yacc(Front(st), tok)
    [] top = "paren" ->
         IF tok = "RPAREN" THEN Repl(st, <<"type1">>) ELSE Err
    \* parameters : parameter | parameters COMMA parameter
    [] top = "parameters" ->
         CASE tok = "COMMA" -> Repl(st, <<"parameters_COMMA">>)
           [] tok = "RBRACKET" -> Repl(st, <<"type1">>)
           [] OTHER -> Err
    [] top = "parameters_COMMA" ->
         IF tok = "RBRACKET" THEN Repl(st, <<"type1">>)
         ELSE yacc(Repl(st, <<"parameters", "type0">>), tok)
    [] OTHER -> Err

\* ------------------------------------------------------ make_syntax_error
\* What make_syntax_error raises for message m and position argument p:
\* a YaccProduction gives SystemError(msg, (lexpos, lineno)); a LexToken gives
\* SyntaxError(msg, (filename, lineno, column, line)); None (ply's argument
\* to p_error at the end of input) has no attribute lexpos.
make_syntax_error(m, p) ==
  CASE p = "YaccProduction" -> [kind |-> "raise", exc |-> "SystemError", msg |-> m]
    [] p = "None" -> [kind |-> "raise", exc |-> "AttributeError", msg |-> "lexpos"]
    [] OTHER -> [kind |-> "raise", exc |-> "SyntaxError", msg |-> m]

\* p_error
p_error(p) == make_syntax_error("Parse error", p)

\* ------------------------------------------------------------- tokenizer
Running == status = "running"

\* every field is reset but the indent stack
set_parse_info_keeps_stack ==
  /\ UNCHANGED indent_stack
  /\ open_brackets' = 0
  /\ queued_dedents' = 0
  /\ pending' = <<>>
  /\ UNCHANGED lineno
  /\ last' = [rule |-> "other", type |-> "none"]
  /\ balance' = 0
  /\ deepest' = 1
  /\ tabOutside' = FALSE

\* set_parse_info, then lexer.input(data) (ply resets lexpos, not lineno)
set_parse_info ==
  /\ indent_stack' = <<0>>
  /\ open_brackets' = 0
  /\ queued_dedents' = 0
  /\ pending' = <<>>
  /\ UNCHANGED lineno
  /\ last' = [rule |-> "other", type |-> "none"]
  /\ balance' = 0
  /\ deepest' = 1
  /\ tabOutside' = FALSE

\* what the invocation before left in the lexer is not the state of a new lexer
Unclean == indent_stack # <<0>> \/ open_brackets # 0 \/ queued_dedents # 0

\* TypeDeclParser.Parse: a new invocation on the same parser object
Parse ==
  /\ ~Running
  /\ set_parse_info
  /\ mode' = "parse"
  /\ left_over' = Unclean
  /\ status' = "running"
  /\ msg' = ""
  /\ pstack' = <<"alldefs">>

\* The tokenizer used without the parser: set_parse_info, lexer.input
Tokenize ==
  /\ ~Running
  /\ set_parse_info
  /\ mode' = "token"
  /\ left_over' = Unclean
  /\ status' = "running"
  /\ msg' = ""
  /\ pstack' = <<>>

\* What is kept of a handler call: the rule, as far as it decides what text
\* can follow (a NAME made of identifier characters is "word", a rule whose
\* match nothing continues is "other"), and the token it returned ("none",
\* "INDENT", "DEDENT" or "token" for any other type).
Called(rule, type, word) ==
  [rule |-> CASE rule = "NAME" /\ word -> "word"
              [] rule \in {"WHITESPACE", "NUMBER", "COMMENT"} -> rule
              [] OTHER -> "other",
   type |-> IF type \in {"none", "INDENT", "DEDENT"} THEN type ELSE "token"]

\* A handler returned a token of this type: the caller receives it; under
\* Parse, yacc shifts it or calls p_error with it.
Return(rule, type, word) ==
  /\ last' = Called(rule, type, word)
  /\ balance' = CASE type = "INDENT" -> balance + 1
                   [] type = "DEDENT" -> balance - 1
                   [] OTHER -> balance
  /\ IF mode = "parse"
     THEN LET st == yacc(pstack, type) IN
          CASE st = Err ->
                 /\ status' = p_error("LexToken").exc
                 /\ msg' = p_error("LexToken").msg
                 /\ UNCHANGED pstack
            [] st = <<"TypeError">> ->
                 /\ status' = "TypeError"
                 /\ msg' = "unsupported operand type(s) for +"
                 /\ UNCHANGED pstack
            [] OTHER -> pstack' = st /\ UNCHANGED <<status, msg>>
     ELSE UNCHANGED <<status, msg, pstack>>

\* A handler returned None: the token is discarded and scanning goes on.
Discard(rule) ==
  /\ last' = Called(rule, "none", FALSE)
  /\ UNCHANGED <<balance, status, msg, pstack>>

\* A handler raised.
Raise(rule, e) ==
  /\ last' = Called(rule, "none", FALSE)
  /\ status' = e.exc
  /\ msg' = e.msg
  /\ UNCHANGED <<balance, pstack>>

\* The text at lexpos is a fresh lexeme v matched by rule r.
Match(v, r) ==
  /\ Running
  /\ pending = <<>>
  /\ lexre(v) = r
  /\ CanFollow(v)

t_LBRACKET ==
  /\ Match(<<"<">>, "LBRACKET")
  /\ open_brackets < MaxBrackets
  /\ open_brackets' = open_brackets + 1
  /\ Return("LBRACKET", "LBRACKET", FALSE)
  /\ UNCHANGED <<indent_stack, queued_dedents, lineno, pending, mode, left_over, deepest, tabOutside>>

t_RBRACKET ==
  /\ Match(<<">">>, "RBRACKET")
  /\ open_brackets >= 0
  /\ open_brackets' = open_brackets - 1
  /\ Return("RBRACKET", "RBRACKET", FALSE)
  /\ UNCHANGED <<indent_stack, queued_dedents, lineno, pending, mode, left_over, deepest, tabOutside>>

t_LPAREN ==
  /\ Match(<<"(">>, "LPAREN")
  /\ open_brackets < MaxBrackets
  /\ open_brackets' = open_brackets + 1
  /\ Return("LPAREN", "LPAREN", FALSE)
  /\ UNCHANGED <<indent_stack, queued_dedents, lineno, pending, mode, left_over, deepest, tabOutside>>

t_RPAREN ==
  /\ Match(<<")">>, "RPAREN")
  /\ open_brackets >= 0
  /\ open_brackets' = open_brackets - 1
  /\ Return("RPAREN", "RPAREN", FALSE)
  /\ UNCHANGED <<indent_stack, queued_dedents, lineno, pending, mode, left_over, deepest, tabOutside>>

t_TAB ==
  /\ Match(<<"TAB">>, "TAB")
  /\ Raise("TAB", make_syntax_error("Use spaces, not tabs", "LexToken"))
  /\ tabOutside' = TRUE
  /\ UNCHANGED <<indent_stack, open_brackets, queued_dedents, lineno, pending, mode, left_over, deepest>>

\* the while loop of t_WHITESPACE: pop, and queue one DEDENT per pop
RECURSIVE PopWhile(_, _, _)
PopWhile(stack, queued, indent) ==
  IF indent < Last(stack)
  THEN PopWhile(Front(stack), queued + 1, indent)
  ELSE [stack |-> stack, queued |-> queued]

\* self.queued_dedents -= 1
dequeue_forgotten(queued) == queued

dequeue(queued) == queued - 1

\* t_WHITESPACE on the run v: a fresh match, or, after skip(-1), the last
\* character of the previous run again.
t_WHITESPACE(v) ==
  /\ Running
  /\ re_WHITESPACE(v)
  /\ IF pending = <<>> THEN CanFollow(v) ELSE v = pending
  /\ UNCHANGED <<mode, left_over, tabOutside>>
  /\ IF queued_dedents > 0
     THEN /\ queued_dedents' = dequeue(queued_dedents)
          /\ pending' = <<>>
          /\ Return("WHITESPACE", "DEDENT", FALSE)
          /\ UNCHANGED <<indent_stack, open_brackets, lineno>>
     ELSE
       /\ lineno + count(v, "NL") <= MaxLineno
       /\ lineno' = lineno + count(v, "NL")
       /\ UNCHANGED open_brackets
       /\ LET spaces_and_newlines == remove(v, "CR")
              i == rfind(spaces_and_newlines, "NL")
              indent == Len(spaces_and_newlines) - i - 1
          IN
          IF open_brackets # 0 \/ i < 0
          THEN \* inside (...) and <...>, or in the middle of a line
               /\ Discard("WHITESPACE")
               /\ pending' = <<>>
               /\ UNCHANGED <<indent_stack, queued_dedents>>
          ELSE IF indent < Last(indent_stack)
          THEN LET r == PopWhile(Front(indent_stack), queued_dedents, indent) IN
               /\ indent_stack' = r.stack
               /\ queued_dedents' = r.queued
               /\ IF indent # Last(r.stack)
                  THEN /\ Raise("WHITESPACE",
                                make_syntax_error("invalid dedent", "LexToken"))
                       /\ pending' = <<>>
                  ELSE /\ pending' = IF r.queued > 0 THEN <<Last(v)>> ELSE <<>>
                       /\ Return("WHITESPACE", "DEDENT", FALSE)
          ELSE IF indent > Last(indent_stack)
          THEN /\ Len(indent_stack) <= MaxIndents
               /\ indent_stack' = Append(indent_stack, indent)
               /\ Return("WHITESPACE", "INDENT", FALSE)
               /\ pending' = <<>>
               /\ UNCHANGED queued_dedents
          ELSE \* same indent as before, ignore
               /\ Discard("WHITESPACE")
               /\ pending' = <<>>
               /\ UNCHANGED <<indent_stack, queued_dedents>>
  /\ deepest' = IF Len(indent_stack') > deepest THEN Len(indent_stack') ELSE deepest

upper(w) ==
  CASE w = "class" -> "CLASS" [] w = "def" -> "DEF" [] w = "pass" -> "PASS"
    [] w = "and" -> "AND" [] w = "or" -> "OR" [] w = "nothing" -> "NOTHING"
    [] w = "raises" -> "RAISES" [] w = "extends" -> "EXTENDS"

t_NAME(v) ==
  /\ Match(v, "NAME")
  /\ IF v[1] = "BQ"
     THEN Return("NAME", "NAME", FALSE)
     ELSE IF v[1] \in reserved
     THEN Return("NAME", upper(v[1]), TRUE)
     ELSE Return("NAME", "NAME", TRUE)
  /\ tabOutside' = (tabOutside \/ count(v, "TAB") > 0)
  /\ UNCHANGED <<indent_stack, open_brackets, queued_dedents, lineno, pending, mode, left_over, deepest>>

\* eval of the literal: a line break inside the quotes that no backslash
\* precedes makes eval raise SyntaxError
eval_fails(v) == \E i \in 2..Len(v) : v[i] = "NL" /\ v[i - 1] # "BS"

t_STRING(v) ==
  /\ Match(v, "STRING")
  /\ IF eval_fails(v)
     THEN Raise("STRING", [kind |-> "raise", exc |-> "SyntaxError",
                           msg |-> "EOL while scanning string literal"])
     ELSE Return("STRING", "STRING", FALSE)
  /\ UNCHANGED <<indent_stack, open_brackets, queued_dedents, lineno, pending,
                 mode, left_over, deepest, tabOutside>>

t_NUMBER(v) ==
  /\ Match(v, "NUMBER")
  /\ Return("NUMBER", "NUMBER", FALSE)
  /\ UNCHANGED <<indent_stack, open_brackets, queued_dedents, lineno, pending,
                 mode, left_over, deepest, tabOutside>>

t_COMMENT(v) ==
  /\ Match(v, "COMMENT")
  /\ Discard("COMMENT")
  /\ UNCHANGED <<indent_stack, open_brackets, queued_dedents, lineno, pending,
                 mode, left_over, deepest, tabOutside>>

\* the rules given as strings: t_ARROW, t_AT, t_COLON, t_COLONEQUALS, t_COMMA,
\* t_DOT, t_QUESTIONMARK
t_simple(v) ==
  /\ \E r \in {"ARROW", "AT", "COLON", "COLONEQUALS", "COMMA", "DOT", "QUESTIONMARK"} :
       /\ Match(v, r)
       /\ Return(r, r, FALSE)
  /\ UNCHANGED <<indent_stack, open_brackets, queued_dedents, lineno, pending,
                 mode, left_over, deepest, tabOutside>>

t_error(v) ==
  /\ Match(v, "error")
  /\ Raise("error", make_syntax_error("Illegal character", "LexToken"))
  /\ UNCHANGED <<indent_stack, open_brackets, queued_dedents, lineno, pending,
                 mode, left_over, deepest, tabOutside>>

\* lexpos reached the end of the text: token() returns None.  Under Parse yacc
\* sees $end: it reduces unit (p_unit, which raises on duplicate names: the
\* names are not part of the parser's position, so with two definitions or
\* more both outcomes are possible) or calls p_error(None).
EndOfInput ==
  /\ Running
  /\ pending = <<>>
  /\ UNCHANGED <<indent_stack, open_brackets, queued_dedents, lineno, pending,
                 mode, left_over, last, balance, deepest, tabOutside>>
  /\ IF mode = "token"
     THEN status' = "eof" /\ UNCHANGED <<msg, pstack>>
     ELSE IF yacc(pstack, "$end")[1] = "accept"
     THEN /\ pstack' = <<"accept">>
          /\ \/ status' = "accepted" /\ msg' = msg
             \/ /\ yacc(pstack, "$end") = <<"accept", "alldefs2">>
                /\ LET e == make_syntax_error("Duplicate identifier(s)", "YaccProduction")
                   IN status' = e.exc /\ msg' = e.msg
     ELSE /\ status' = p_error("None").exc
          /\ msg' = p_error("None").msg
          /\ UNCHANGED pstack


\* ------------------------------------------------------------- pytd nodes
NamedType(name) == [kind |-> "NamedType", name |-> name]
UnknownType == [kind |-> "UnknownType"]
NothingType == [kind |-> "NothingType"]
Scalar(value) == [kind |-> "Scalar", value |-> value]
UnionType(type_list) == [kind |-> "UnionType", type_list |-> type_list]
IntersectionType(type_list) == [kind |-> "IntersectionType", type_list |-> type_list]
HomogeneousContainerType(base_type, element_type) ==
  [kind |-> "HomogeneousContainerType", base_type |-> base_type,
   element_type |-> element_type]
GenericType(base_type, parameters) ==
  [kind |-> "GenericType", base_type |-> base_type, parameters |-> parameters]
Constant(name, type) == [kind |-> "Constant", name |-> name, type |-> type]
Parameter(name, type) == [kind |-> "Parameter", name |-> name, type |-> type]
MutableParameter(name, type, new_type) ==
  [kind |-> "MutableParameter", name |-> name, type |-> type, new_type |-> new_type]
Signature(params, return_type, exceptions, template, has_optional) ==
  [kind |-> "Signature", params |-> params, return_type |-> return_type,
   exceptions |-> exceptions, template |-> template, has_optional |-> has_optional]
Function(name, signatures) ==
  [kind |-> "Function", name |-> name, signatures |-> signatures]
Class(name, parents, methods, constants, template) ==
  [kind |-> "Class", name |-> name, parents |-> parents, methods |-> methods,
   constants |-> constants, template |-> template]
TypeDeclUnit(constants, functions, classes) ==
  [kind |-> "TypeDeclUnit", constants |-> constants, functions |-> functions,
   classes |-> classes]
NameAndSig(name, signature) ==
  [kind |-> "NameAndSig", name |-> name, signature |-> signature]
Params(required, has_optional) ==
  [required |-> required, has_optional |-> has_optional]
None == [kind |-> "None"]

\* [x for x in seq if isinstance(x, k)]
OfKind(seq, k) == SelectSeq(seq, LAMBDA x : x.kind = k)

\* {x.name for x in seq}
names(seq) == {seq[i].name : i \in DOMAIN seq}

\* -------------------------------------------------------- MergeSignatures
\* name_to_signatures is an OrderedDict: a sequence of [key, val] in the order
\* of insertion.
RECURSIVE MergeLoop(_, _)
MergeLoop(signatures, name_to_signatures) ==
  IF signatures = <<>> THEN name_to_signatures
  ELSE LET name == Head(signatures).name
           signature == Head(signatures).signature
           d == IF \E i \in DOMAIN name_to_signatures : name_to_signatures[i].key = name
                THEN name_to_signatures
                ELSE Append(name_to_signatures, [key |-> name, val |-> <<>>])
       IN MergeLoop(Tail(signatures),
                    [i \in DOMAIN d |->
                       IF d[i].key = name
                       THEN [key |-> name, val |-> Append(d[i].val, signature)]
                       ELSE d[i]])

\* a signature already recorded under the name is dropped
RECURSIVE MergeLoop_dedup(_, _)
MergeLoop_dedup(signatures, name_to_signatures) ==
  IF signatures = <<>> THEN name_to_signatures
  ELSE LET name == Head(signatures).name
           signature == Head(signatures).signature
           d == IF \E i \in DOMAIN name_to_signatures : name_to_signatures[i].key = name
                THEN name_to_signatures
                ELSE Append(name_to_signatures, [key |-> name, val |-> <<>>])
       IN MergeLoop_dedup(Tail(signatures),
                    [i \in DOMAIN d |->
                       IF d[i].key = name
                          /\ \A k \in DOMAIN d[i].val : d[i].val[k] # signature
                       THEN [key |-> name, val |-> Append(d[i].val, signature)]
                       ELSE d[i]])

MergeSignatures_dedup(signatures) ==
  LET d == MergeLoop_dedup(signatures, <<>>)
  IN [i \in DOMAIN d |-> Function(d[i].key, d[i].val)]

MergeSignatures(signatures) ==
  LET d == MergeLoop(signatures, <<>>)
  IN [i \in DOMAIN d |-> Function(d[i].key, d[i].val)]

\* ------------------------------------------------------ p_unit, p_classdef
\* the check of the classes against the functions is left out
p_unit_two_checks(p1) ==
  LET funcdefs == OfKind(p1, "NameAndSig")
      constants == OfKind(p1, "Constant")
      classes == OfKind(p1, "Class")
  IN IF \/ names(funcdefs) \cap names(constants) # {}
        \/ names(constants) \cap names(classes) # {}
     THEN make_syntax_error("Duplicate identifier(s)", "YaccProduction")
     ELSE TypeDeclUnit(constants, MergeSignatures(funcdefs), classes)

p_unit(p1) ==
  LET funcdefs == OfKind(p1, "NameAndSig")
      constants == OfKind(p1, "Constant")
      classes == OfKind(p1, "Class")
  IN IF \/ names(funcdefs) \cap names(constants) # {}
        \/ names(constants) \cap names(classes) # {}
        \/ names(classes) \cap names(funcdefs) # {}
     THEN make_syntax_error("Duplicate identifier(s)", "YaccProduction")
     ELSE TypeDeclUnit(constants, MergeSignatures(funcdefs), classes)

\* classdef : CLASS template NAME parents COLON INDENT class_funcs DEDENT
p_classdef(p2, p3, p4, p7) ==
  LET funcdefs == OfKind(p7, "NameAndSig")
      constants == OfKind(p7, "Constant")
  IN IF names(funcdefs) \cup names(constants) # names(p7)
     THEN make_syntax_error("Duplicate identifier(s)", "YaccProduction")
     ELSE Class(p3, p4, MergeSignatures(funcdefs), constants, p2)

p_constantdef(p1, p3) == Constant(p1, p3)
p_param(p1) == Parameter(p1, NamedType("object"))
p_param_and_type(p1, p3) == Parameter(p1, p3)
p_return_null == UnknownType
p_raise_null == <<>>
p_template_null == <<>>
p_parents_null == <<>>
p_signature_none == None
p_class_funcs_pass == <<>>

\* --------------------------------------------- declarations of one scope
\* The reductions that collect the definitions of a module (alldefs) or of a
\* class body (funcdefs) and close the scope (p_unit, p_classdef).
MaxDefs == 3        \* most definitions collected in one scope

DeclNames == {"f", "g", "h"}

ConstantsOffered == {p_constantdef(n, NamedType("int")) : n \in DeclNames}

SignaturesOffered ==
  {Signature(ps, p_return_null, p_raise_null, p_template_null, FALSE) :
     ps \in {<<>>, <<p_param("x")>>}}

FuncdefsOffered == {NameAndSig(n, sg) : n \in DeclNames, sg \in SignaturesOffered}

\* class n: pass
ClassesOffered ==
  {p_classdef(p_template_null, n, p_parents_null, p_class_funcs_pass) : n \in DeclNames}

reduce_alldefs_null ==
  /\ scope = "start"
  /\ scope' = "module"
  /\ defs' = <<>>
  /\ UNCHANGED result

reduce_alldefs_constant(c) ==
  /\ scope = "module"
  /\ Len(defs) < MaxDefs
  /\ defs' = defs \o <<c>>
  /\ UNCHANGED <<scope, result>>

reduce_alldefs_class(c) ==
  /\ scope = "module"
  /\ Len(defs) < MaxDefs
  /\ defs' = defs \o <<c>>
  /\ UNCHANGED <<scope, result>>

reduce_alldefs_func(f) ==
  /\ scope = "module"
  /\ Len(defs) < MaxDefs
  /\ defs' = defs \o <<f>>
  /\ UNCHANGED <<scope, result>>

reduce_unit ==
  /\ scope = "module"
  /\ result' = p_unit(defs)
  /\ scope' = "unit"
  /\ UNCHANGED defs

reduce_funcdefs_null ==
  /\ scope = "start"
  /\ scope' = "class"
  /\ defs' = <<>>
  /\ UNCHANGED result

reduce_funcdefs_func(f) ==
  /\ scope = "class"
  /\ Len(defs) < MaxDefs
  /\ defs' = defs \o <<f>>
  /\ UNCHANGED <<scope, result>>

reduce_funcdefs_constant(c) ==
  /\ scope = "class"
  /\ Len(defs) < MaxDefs
  /\ defs' = defs \o <<c>>
  /\ UNCHANGED <<scope, result>>

reduce_classdef(n) ==
  /\ scope = "class"
  /\ result' = p_classdef(p_template_null, n, p_parents_null, defs)
  /\ scope' = "classdef"
  /\ UNCHANGED defs

DeclInit ==
  /\ scope = "start"
  /\ defs = <<>>
  /\ result = None


\* ------------------------------------------------------------ one funcdef
MaxParams == 2      \* most parameters of the funcdef
MaxMutators == 2    \* most mutator statements of its body
MaxWritten == 5     \* most tokens of the parameter list (`...` counts as one)

ParamNames == {"x", "y"}
NewTypes == {NamedType("str"), NamedType("float")}

PyList(items) == [kind |-> "list", items |-> items]
Mutator(name, new_type) == [kind |-> "Mutator", name |-> name, new_type |-> new_type]

\* the + of Python: defined for two lists, a TypeError for a Mutator and a list
py_add(a, b) ==
  IF a.kind = "list" /\ b.kind = "list"
  THEN PyList(a.items \o b.items)
  ELSE [kind |-> "raise", exc |-> "TypeError",
        msg |-> "unsupported operand type(s) for +"]

p_params_multi(p1, p3) == Params(p1.required \o <<p3>>, FALSE)
p_params_ellipsis(p1) == Params(p1.required, TRUE)
p_params_1(p1) == Params(<<p1>>, FALSE)
p_params_only_ellipsis == Params(<<>>, TRUE)
p_params_null == Params(<<>>, FALSE)
p_empty_body == PyList(<<>>)
p_has_body(p3) == p3
p_body_1(p1) == PyList(<<p1>>)
p_body_multiple(p1, p2) == py_add(p1, PyList(<<p2>>))
p_mutator(p1, p3) == Mutator(p1, p3)

\* every parameter is replaced, whatever its name
VisitParameter_any(self, p) == MutableParameter(p.name, p.type, self.new_type)

VisitParameter(self, p) ==
  IF p.name = self.name
  THEN MutableParameter(p.name, p.type, self.new_type)
  ELSE p

\* signature.Visit(mutator): the nodes of class Parameter are handed to the
\* visitor's VisitParameter, the rest of the signature is rebuilt as it was.
Visit(signature, visitor) ==
  [signature EXCEPT !.params =
     [i \in DOMAIN signature.params |->
        IF signature.params[i].kind = "Parameter"
        THEN VisitParameter(visitor, signature.params[i])
        ELSE signature.params[i]]]

RECURSIVE VisitEach(_, _)
VisitEach(signature, mutators) ==
  IF mutators = <<>> THEN signature
  ELSE VisitEach(Visit(signature, Head(mutators)), Tail(mutators))

p_funcdef(p2, p3, p5, p7, p8, p10) ==
  LET signature == Signature(p5.required, p7, p8, p2, p5.has_optional)
  IN NameAndSig(p3, VisitEach(signature, p10.items))

ParamsOffered ==
  {p_param(n) : n \in ParamNames}
    \cup {p_param_and_type(n, NamedType("int")) : n \in ParamNames}

reduce_params_null ==
  /\ fpos = "LPAREN"
  /\ fparams' = p_params_null
  /\ written' = <<>>
  /\ fpos' = "params"
  /\ UNCHANGED <<stmts, mstack, body, fresult>>

reduce_params_1(p1) ==
  /\ fpos = "LPAREN"
  /\ fparams' = p_params_1(p1)
  /\ written' = <<"NAME">>
  /\ fpos' = "params"
  /\ UNCHANGED <<stmts, mstack, body, fresult>>

reduce_params_only_ellipsis ==
  /\ fpos = "LPAREN"
  /\ fparams' = p_params_only_ellipsis
  /\ written' = <<"DOTS">>
  /\ fpos' = "params"
  /\ UNCHANGED <<stmts, mstack, body, fresult>>

reduce_params_multi(p3) ==
  /\ fpos = "params"
  /\ Len(fparams.required) < MaxParams
  /\ fparams' = p_params_multi(fparams, p3)
  /\ written' = written \o <<"COMMA", "NAME">>
  /\ UNCHANGED <<fpos, stmts, mstack, body, fresult>>

reduce_params_ellipsis ==
  /\ fpos = "params"
  /\ fparams' = p_params_ellipsis(fparams)
  /\ Len(written) + 2 <= MaxWritten
  /\ written' = written \o <<"COMMA", "DOTS">>
  /\ UNCHANGED <<fpos, stmts, mstack, body, fresult>>

reduce_empty_body ==
  /\ fpos = "params"
  /\ body' = p_empty_body
  /\ fpos' = "maybe_body"
  /\ UNCHANGED <<fparams, stmts, written, mstack, fresult>>

\* RPAREN return raises signature COLON INDENT
shift_INDENT ==
  /\ fpos = "params"
  /\ fpos' = "INDENT"
  /\ UNCHANGED <<fparams, stmts, written, mstack, body, fresult>>

reduce_mutator(p1, p3) ==
  /\ fpos = "INDENT"
  /\ Len(mstack) < MaxMutators
  /\ mstack' = Append(mstack, p_mutator(p1, p3))
  /\ stmts' = Append(stmts, p_mutator(p1, p3))
  /\ UNCHANGED <<fpos, fparams, written, body, fresult>>

\* body : mutator, on the lookahead DEDENT
reduce_body_1 ==
  /\ fpos = "INDENT"
  /\ mstack # <<>>
  /\ body' = p_body_1(Last(mstack))
  /\ mstack' = Front(mstack)
  /\ fpos' = "body"
  /\ UNCHANGED <<fparams, stmts, written, fresult>>

\* body : mutator body
reduce_body_multiple ==
  /\ fpos = "body"
  /\ mstack # <<>>
  /\ LET p0 == p_body_multiple(Last(mstack), body)
     IN IF p0.kind = "raise"
        THEN /\ fresult' = p0
             /\ fpos' = "done"
             /\ UNCHANGED <<body, mstack>>
        ELSE /\ body' = p0
             /\ mstack' = Front(mstack)
             /\ UNCHANGED <<fpos, fresult>>
  /\ UNCHANGED <<fparams, stmts, written>>

reduce_has_body ==
  /\ fpos = "body"
  /\ mstack = <<>>
  /\ body' = p_has_body(body)
  /\ fpos' = "maybe_body"
  /\ UNCHANGED <<fparams, stmts, written, mstack, fresult>>

reduce_funcdef ==
  /\ fpos = "maybe_body"
  /\ fresult' = p_funcdef(p_template_null, "f", fparams, p_return_null,
                          p_raise_null, body)
  /\ fpos' = "done"
  /\ UNCHANGED <<fparams, stmts, written, mstack, body>>

FuncInit ==
  /\ fpos = "LPAREN"
  /\ fparams = p_params_null
  /\ written = <<>>
  /\ stmts = <<>>
  /\ mstack = <<>>
  /\ body = None
  /\ fresult = None


\* ----------------------------------------------------- one type expression
\* The LR parse of the grammar of `type` (p_type_* and p_parameter*), with the
\* shift/reduce conflicts of `type OR type` and `type AND type` resolved by
\* the precedence table.
MaxTypeTokens == 5  \* most tokens of the expression

precedence == [OR |-> [assoc |-> "left", level |-> 1],
               AND |-> [assoc |-> "left", level |-> 2],
               COMMA |-> [assoc |-> "left", level |-> 3]]

Tok(s) == [sym |-> s, val |-> s]
NoTok == Tok("none")

TypeTokens ==
  {[sym |-> "NAME", val |-> n] : n \in {"a", "b"}}
    \cup {[sym |-> "STRING", val |-> "s"], [sym |-> "NUMBER", val |-> "1"]}
    \cup {Tok(x) : x \in {"QUESTIONMARK", "NOTHING", "OR", "AND", "LPAREN",
                          "RPAREN", "LBRACKET", "RBRACKET", "COMMA"}}

TypeStart == {"NAME", "QUESTIONMARK", "NOTHING", "STRING", "NUMBER", "LPAREN"}

\* the symbol k entries below the top of the stack (k = 1: the top)
Sym(st, k) == IF Len(st) >= k THEN st[Len(st) - k + 1].sym ELSE "bottom"
Val(st, k) == st[Len(st) - k + 1].val
Pop(st, k) == SubSeq(st, 1, Len(st) - k)

\* yacc's resolution of a shift/reduce conflict between a rule whose
\* precedence is that of `ruletok` and the shift of `tok`
resolve(ruletok, tok) ==
  IF precedence[tok].level > precedence[ruletok].level THEN "shift"
  ELSE IF precedence[tok].level < precedence[ruletok].level THEN "reduce"
  ELSE IF precedence[ruletok].assoc = "left" THEN "reduce"
  ELSE "shift"

lr_action(st, tok) ==
  LET t1 == Sym(st, 1)
      t2 == Sym(st, 2)
  IN CASE t1 \in {"bottom", "OR", "AND", "LPAREN", "LBRACKET"} ->
            IF tok \in TypeStart THEN "shift" ELSE "error"
       [] t1 = "COMMA" ->
            IF tok = "RBRACKET" \/ tok \in TypeStart THEN "shift" ELSE "error"
       [] t1 = "NAME" -> IF tok = "LBRACKET" THEN "shift" ELSE "p_type_name"
       [] t1 = "QUESTIONMARK" -> "p_type_unknown"
       [] t1 = "NOTHING" -> "p_type_nothing"
       [] t1 = "STRING" -> "p_scalar_string"
       [] t1 = "NUMBER" -> "p_scalar_number"
       [] t1 = "scalar" -> "p_type_constant"
       [] t1 = "RPAREN" -> "p_type_paren"
       [] t1 = "RBRACKET" ->
            IF t2 = "COMMA" THEN "p_type_generic_1" ELSE "p_type_homogeneous"
       [] t1 = "parameter" ->
            IF t2 = "COMMA" THEN "p_parameters_multi" ELSE "p_parameters_1"
       [] t1 = "parameters" ->
            IF tok \in {"COMMA", "RBRACKET"} THEN "shift" ELSE "error"
       [] t1 = "type" ->
            CASE t2 \in {"OR", "AND"} ->
                   IF tok \in {"OR", "AND"} /\ resolve(t2, tok) = "shift"
                   THEN "shift"
                   ELSE IF t2 = "OR" THEN "p_type_or" ELSE "p_type_and"
              [] t2 \notin {"OR", "AND"} /\ tok \in {"OR", "AND"} -> "shift"
              [] t2 \in {"LBRACKET", "COMMA"} /\ tok \notin {"OR", "AND"} ->
                   "p_parameter"
              [] t2 = "LPAREN" /\ tok \notin {"OR", "AND"} ->
                   IF tok = "RPAREN" THEN "shift" ELSE "error"
              [] OTHER -> IF tok = "$end" THEN "accept" ELSE "error"

\* a chain always becomes a nested pair
p_type_or_pair(p1, p3) == UnionType(<<p1, p3>>)

p_type_or(p1, p3) ==
  IF p1.kind = "UnionType" /\ p3.kind = "NamedType"
  THEN UnionType(p1.type_list \o <<p3>>)
  ELSE IF p1.kind = "NamedType" /\ p3.kind = "UnionType"
  THEN UnionType(<<p1>> \o p3.type_list)
  ELSE UnionType(<<p1, p3>>)

p_type_and(p1, p3) ==
  IF p1.kind = "IntersectionType" /\ p3.kind = "NamedType"
  THEN IntersectionType(p1.type_list \o <<p3>>)
  ELSE IF p1.kind = "NamedType" /\ p3.kind = "IntersectionType"
  THEN IntersectionType(<<p1>> \o p3.type_list)
  ELSE IntersectionType(<<p1, p3>>)

p_type_homogeneous(p1, p3) ==
  IF Len(p3) = 1
  THEN HomogeneousContainerType(NamedType(p1), p3[1])
  ELSE GenericType(NamedType(p1), p3)

p_type_generic_1(p1, p3) == GenericType(NamedType(p1), p3)
p_type_paren(p2) == p2
p_type_name(p1) == NamedType(p1)
p_type_unknown == UnknownType
p_type_nothing == NothingType
p_type_constant(p1) == p1
p_scalar_string(p1) == Scalar(p1)
p_scalar_number(p1) == Scalar(p1)
p_parameters_1(p1) == <<p1>>
p_parameters_multi(p1, p3) == p1 \o <<p3>>
p_parameter(p1) == p1

TypeRunning == tstatus = "parsing"
Decided(a) == TypeRunning /\ la # NoTok /\ lr_action(tstack, la.sym) = a

\* the stack after a reduction that pops k entries and pushes [s, v]
Reduced(k, s, v) ==
  /\ tstack' = Append(Pop(tstack, k), [sym |-> s, val |-> v])
  /\ UNCHANGED <<la, src, tstatus>>

next_token(t) ==
  /\ TypeRunning
  /\ la = NoTok
  /\ Len(src) < MaxTypeTokens
  /\ la' = t
  /\ src' = Append(src, t)
  /\ UNCHANGED <<tstack, red, tstatus>>

end_of_input ==
  /\ TypeRunning
  /\ la = NoTok
  /\ la' = Tok("$end")
  /\ UNCHANGED <<tstack, src, red, tstatus>>

shift ==
  /\ Decided("shift")
  /\ tstack' = Append(tstack, la)
  /\ la' = NoTok
  /\ UNCHANGED <<src, red, tstatus>>

reduce_type_or ==
  /\ Decided("p_type_or")
  /\ LET p1 == Val(tstack, 3)
         p3 == Val(tstack, 1)
     IN /\ Reduced(3, "type", p_type_or(p1, p3))
        /\ red' = [op |-> "OR", p1 |-> p1, p3 |-> p3, p0 |-> p_type_or(p1, p3)]

reduce_type_and ==
  /\ Decided("p_type_and")
  /\ LET p1 == Val(tstack, 3)
         p3 == Val(tstack, 1)
     IN /\ Reduced(3, "type", p_type_and(p1, p3))
        /\ red' = [op |-> "AND", p1 |-> p1, p3 |-> p3, p0 |-> p_type_and(p1, p3)]

reduce_type_homogeneous ==
  /\ Decided("p_type_homogeneous")
  /\ Reduced(4, "type", p_type_homogeneous(Val(tstack, 4), Val(tstack, 2)))
  /\ UNCHANGED red

reduce_type_generic_1 ==
  /\ Decided("p_type_generic_1")
  /\ Reduced(5, "type", p_type_generic_1(Val(tstack, 5), Val(tstack, 3)))
  /\ UNCHANGED red

reduce_type_paren ==
  /\ Decided("p_type_paren")
  /\ Reduced(3, "type", p_type_paren(Val(tstack, 2)))
  /\ UNCHANGED red

reduce_type_name ==
  /\ Decided("p_type_name")
  /\ Reduced(1, "type", p_type_name(Val(tstack, 1)))
  /\ UNCHANGED red

reduce_type_unknown ==
  /\ Decided("p_type_unknown")
  /\ Reduced(1, "type", p_type_unknown)
  /\ UNCHANGED red

reduce_type_nothing ==
  /\ Decided("p_type_nothing")
  /\ Reduced(1, "type", p_type_nothing)
  /\ UNCHANGED red

reduce_type_constant ==
  /\ Decided("p_type_constant")
  /\ Reduced(1, "type", p_type_constant(Val(tstack, 1)))
  /\ UNCHANGED red

reduce_scalar_string ==
  /\ Decided("p_scalar_string")
  /\ Reduced(1, "scalar", p_scalar_string(Val(tstack, 1)))
  /\ UNCHANGED red

reduce_scalar_number ==
  /\ Decided("p_scalar_number")
  /\ Reduced(1, "scalar", p_scalar_number(Val(tstack, 1)))
  /\ UNCHANGED red

reduce_parameters_1 ==
  /\ Decided("p_parameters_1")
  /\ Reduced(1, "parameters", p_parameters_1(Val(tstack, 1)))
  /\ UNCHANGED red

reduce_parameters_multi ==
  /\ Decided("p_parameters_multi")
  /\ Reduced(3, "parameters", p_parameters_multi(Val(tstack, 3), Val(tstack, 1)))
  /\ UNCHANGED red

reduce_parameter ==
  /\ Decided("p_parameter")
  /\ Reduced(1, "parameter", p_parameter(Val(tstack, 1)))
  /\ UNCHANGED red

type_accept ==
  /\ Decided("accept")
  /\ tstatus' = "accepted"
  /\ UNCHANGED <<tstack, la, src, red>>

type_error ==
  /\ Decided("error")
  /\ tstatus' = p_error("YaccSymbol").exc
  /\ UNCHANGED <<tstack, la, src, red>>

TypeInit ==
  /\ tstack = <<>>
  /\ la = NoTok
  /\ src = <<>>
  /\ red = [op |-> "none", p1 |-> None, p3 |-> None, p0 |-> None]
  /\ tstatus = "parsing"

LexInit ==
  /\ indent_stack = <<0>>
  /\ open_brackets = 0
  /\ queued_dedents = 0
  /\ lineno = 1
  /\ pending = <<>>
  /\ mode = "idle"
  /\ status = "idle"
  /\ msg = ""
  /\ pstack = <<>>
  /\ last = [rule |-> "other", type |-> "none"]
  /\ balance = 0
  /\ deepest = 1
  /\ tabOutside = FALSE
  /\ left_over = FALSE

declvars == <<scope, defs, result>>
funcvars == <<fpos, fparams, written, stmts, mstack, body, fresult>>
typevars == <<tstack, la, src, red, tstatus>>
vars == <<lexvars, declvars, funcvars, typevars>>

Init == LexInit /\ DeclInit /\ FuncInit /\ TypeInit

\* ---- the tokenizer and the parser over it
NotLex == <<declvars, funcvars, typevars>>

Next ==
  \/ Parse /\ UNCHANGED NotLex
  \/ Tokenize /\ UNCHANGED NotLex
  \/ t_LBRACKET /\ UNCHANGED NotLex
  \/ t_RBRACKET /\ UNCHANGED NotLex
  \/ t_LPAREN /\ UNCHANGED NotLex
  \/ t_RPAREN /\ UNCHANGED NotLex
  \/ t_TAB /\ UNCHANGED NotLex
  \/ \E v \in WsRuns : t_WHITESPACE(v) /\ UNCHANGED NotLex
  \/ \E v \in Matched("NAME") : t_NAME(v) /\ UNCHANGED NotLex
  \/ \E v \in Matched("STRING") : t_STRING(v) /\ UNCHANGED NotLex
  \/ \E v \in Matched("NUMBER") : t_NUMBER(v) /\ UNCHANGED NotLex
  \/ \E v \in Matched("COMMENT") : t_COMMENT(v) /\ UNCHANGED NotLex
  \/ \E v \in Lexemes \ WsRuns : t_simple(v) /\ UNCHANGED NotLex
  \/ \E v \in Matched("error") : t_error(v) /\ UNCHANGED NotLex
  \/ EndOfInput /\ UNCHANGED NotLex

Spec == Init /\ [][Next]_vars

\* ---- the definitions of one scope
NotDecl == <<lexvars, funcvars, typevars>>

DeclNext ==
  \/ reduce_alldefs_null /\ UNCHANGED NotDecl
  \/ \E c \in ConstantsOffered : reduce_alldefs_constant(c) /\ UNCHANGED NotDecl
  \/ \E c \in ClassesOffered : reduce_alldefs_class(c) /\ UNCHANGED NotDecl
  \/ \E f \in FuncdefsOffered : reduce_alldefs_func(f) /\ UNCHANGED NotDecl
  \/ reduce_unit /\ UNCHANGED NotDecl
  \/ reduce_funcdefs_null /\ UNCHANGED NotDecl
  \/ \E f \in FuncdefsOffered : reduce_funcdefs_func(f) /\ UNCHANGED NotDecl
  \/ \E c \in ConstantsOffered : reduce_funcdefs_constant(c) /\ UNCHANGED NotDecl
  \/ \E n \in DeclNames : reduce_classdef(n) /\ UNCHANGED NotDecl

SpecDecl == Init /\ [][DeclNext]_vars

\* ---- one funcdef
NotFunc == <<lexvars, declvars, typevars>>

FuncNext ==
  \/ reduce_params_null /\ UNCHANGED NotFunc
  \/ \E q \in ParamsOffered : reduce_params_1(q) /\ UNCHANGED NotFunc
  \/ reduce_params_only_ellipsis /\ UNCHANGED NotFunc
  \/ \E q \in ParamsOffered : reduce_params_multi(q) /\ UNCHANGED NotFunc
  \/ reduce_params_ellipsis /\ UNCHANGED NotFunc
  \/ reduce_empty_body /\ UNCHANGED NotFunc
  \/ shift_INDENT /\ UNCHANGED NotFunc
  \/ \E n \in ParamNames, t \in NewTypes : reduce_mutator(n, t) /\ UNCHANGED NotFunc
  \/ reduce_body_1 /\ UNCHANGED NotFunc
  \/ reduce_body_multiple /\ UNCHANGED NotFunc
  \/ reduce_has_body /\ UNCHANGED NotFunc
  \/ reduce_funcdef /\ UNCHANGED NotFunc

SpecFunc == Init /\ [][FuncNext]_vars

\* ---- one type expression
NotType == <<lexvars, declvars, funcvars>>

TypeNext ==
  \/ \E t \in TypeTokens : next_token(t) /\ UNCHANGED NotType
  \/ end_of_input /\ UNCHANGED NotType
  \/ shift /\ UNCHANGED NotType
  \/ reduce_type_or /\ UNCHANGED NotType
  \/ reduce_type_and /\ UNCHANGED NotType
  \/ reduce_type_homogeneous /\ UNCHANGED NotType
  \/ reduce_type_generic_1 /\ UNCHANGED NotType
  \/ reduce_type_paren /\ UNCHANGED NotType
  \/ reduce_type_name /\ UNCHANGED NotType
  \/ reduce_type_unknown /\ UNCHANGED NotType
  \/ reduce_type_nothing /\ UNCHANGED NotType
  \/ reduce_type_constant /\ UNCHANGED NotType
  \/ reduce_scalar_string /\ UNCHANGED NotType
  \/ reduce_scalar_number /\ UNCHANGED NotType
  \/ reduce_parameters_1 /\ UNCHANGED NotType
  \/ reduce_parameters_multi /\ UNCHANGED NotType
  \/ reduce_parameter /\ UNCHANGED NotType
  \/ type_accept /\ UNCHANGED NotType
  \/ type_error /\ UNCHANGED NotType

SpecType == Init /\ [][TypeNext]_vars

\* ------------------------------------------------------------------ properties
Accepted == mode = "parse" /\ status = "accepted"

\* C1: for every text that Parse accepts, the tokenizer has emitted as many
\* DEDENT tokens as INDENT tokens, and at the end of the input the indent
\* stack is [0] again with no DEDENT queued.
C1_IndentationBalanced ==
  Accepted => (balance = 0 /\ indent_stack = <<0>> /\ queued_dedents = 0)

\* an accepted text with a block inside a block (a class, a def with a body)
C1_Witness == Accepted /\ deepest = 3 /\ balance = 0

\* C2: while the bracket depth is greater than 0, a whitespace run produces no
\* token and leaves the indent stack unchanged, whatever came before.
C2_WhitespaceInBracketsDiscarded ==
  [][(open_brackets > 0 /\ \E v \in WsRuns : t_WHITESPACE(v))
       => (last'.type = "none" /\ indent_stack' = indent_stack)]_vars

\* C3: a tab outside a string literal or a comment makes the parse fail, in
\* every context (back-tick-quoted identifiers included): no text that Parse
\* accepts holds one.
C3_TabAlwaysFails == Accepted => ~tabOutside

\* Under Parse no DEDENT stays queued once the run that queued it has been
\* scanned again: the grammar stops at a third nested INDENT.
ParseNeverLeaksQueue ==
  (mode = "parse" /\ Running /\ pending = <<>>) => queued_dedents = 0

\* ---- MergeSignatures
DeclClosed == scope \in {"unit", "classdef"} /\ result.kind \in {"TypeDeclUnit", "Class"}
Merged == IF result.kind = "TypeDeclUnit" THEN result.functions ELSE result.methods
Recorded == OfKind(defs, "NameAndSig")

FirstIndex(seq, n) ==
  CHOOSE i \in DOMAIN seq : seq[i].name = n /\ \A j \in 1..(i - 1) : seq[j].name # n

SigsOf(seq, n) ==
  LET sel == SelectSeq(seq, LAMBDA x : x.name = n)
  IN [i \in DOMAIN sel |-> sel[i].signature]

RECURSIVE TotalSignatures(_)
TotalSignatures(fs) ==
  IF fs = <<>> THEN 0 ELSE Len(Head(fs).signatures) + TotalSignatures(Tail(fs))

\* C4: the functions built from the (name, signature) pairs of a scope are one
\* Function per distinct name, in the order in which the names first appear;
\* each holds all the signatures recorded under its name, in declaration
\* order, repeated ones included, so that the signatures of the output are as
\* many as the pairs of the input.
C4_MergeSignatures ==
  DeclClosed =>
    /\ \A i, j \in DOMAIN Merged : i # j => Merged[i].name # Merged[j].name
    /\ names(Merged) = names(Recorded)
    /\ \A i, j \in DOMAIN Merged :
         i < j => FirstIndex(Recorded, Merged[i].name) < FirstIndex(Recorded, Merged[j].name)
    /\ \A i \in DOMAIN Merged :
         /\ Merged[i].kind = "Function"
         /\ Merged[i].signatures = SigsOf(Recorded, Merged[i].name)
    /\ TotalSignatures(Merged) = Len(Recorded)

\* two names interleaved (f, g, f), f declared twice with the same signature
C4_Witness ==
  /\ DeclClosed
  /\ Len(Recorded) = 3
  /\ Recorded[1] = Recorded[3]
  /\ Recorded[1].name # Recorded[2].name
  /\ Len(Merged) = 2
  /\ Len(Merged[1].signatures) = 2

\* ---- mutators
FuncDone == fpos = "done"

C6_EveryMutatorApplied ==
  (FuncDone /\ Len(stmts) >= 2) =>
    /\ fresult.kind = "NameAndSig"
    /\ \A i \in DOMAIN fparams.required :
         (\E k \in DOMAIN stmts : stmts[k].name = fparams.required[i].name)
           => fresult.signature.params[i].kind = "MutableParameter"

\* ---- duplicate identifiers
SharedAcrossKinds(seq) ==
  \E i, j \in DOMAIN seq : seq[i].name = seq[j].name /\ seq[i].kind # seq[j].kind

\* C7: at module scope a name in more than one of the constant names, the
\* function names and the class names makes the parse fail with the message
\* 'Duplicate identifier(s)' and no module; a module that is returned has
\* three pairwise disjoint name sets.
C7_ModuleDuplicates ==
  scope = "unit" =>
    /\ SharedAcrossKinds(defs) =>
         (result.kind = "raise" /\ result.msg = "Duplicate identifier(s)")
    /\ result.kind = "TypeDeclUnit" =>
         /\ names(result.constants) \cap names(result.functions) = {}
         /\ names(result.constants) \cap names(result.classes) = {}
         /\ names(result.classes) \cap names(result.functions) = {}

\* a class and a function of the same name, no constant involved
C7_Witness ==
  /\ scope = "unit"
  /\ result.kind = "raise"
  /\ names(OfKind(defs, "Class")) \cap names(OfKind(defs, "NameAndSig")) # {}
  /\ OfKind(defs, "Constant") = <<>>

\* C8: at class scope a name used by a method and by a constant of the class
\* makes the parse fail; a Class node that is produced has disjoint method
\* names and constant names.
C8_ClassDuplicates ==
  scope = "classdef" =>
    /\ SharedAcrossKinds(defs) => result.kind = "raise"
    /\ result.kind = "Class" =>
         names(result.methods) \cap names(result.constants) = {}

\* ---- type expressions
TypeAccepted == tstatus = "accepted"

\* the tokens are names joined by `op` only, at least two names
IsChain(toks, op) ==
  /\ Len(toks) >= 3
  /\ Len(toks) % 2 = 1
  /\ \A i \in DOMAIN toks :
       toks[i].sym = IF i % 2 = 1 THEN "NAME" ELSE op

ChainNames(toks) == [i \in 1..((Len(toks) + 1) \div 2) |-> NamedType(toks[2 * i - 1].val)]

\* C9: a chain of two or more bare names joined only by `or` (only by `and`)
\* yields one UnionType (IntersectionType) whose members are the NamedTypes
\* of the names, in source order.
C9_ChainIsFlat ==
  TypeAccepted =>
    /\ IsChain(src, "OR") => Val(tstack, 1) = UnionType(ChainNames(src))
    /\ IsChain(src, "AND") => Val(tstack, 1) = IntersectionType(ChainNames(src))

\* a or b or a
C9_Witness ==
  /\ TypeAccepted
  /\ IsChain(src, "OR")
  /\ Len(src) = 5
  /\ Val(tstack, 1).kind = "UnionType"
  /\ Len(Val(tstack, 1).type_list) = 3

Single(t) == t.kind \notin {"UnionType", "IntersectionType"}
Aggregate(op) == IF op = "OR" THEN "UnionType" ELSE "IntersectionType"

\* C10: `or` of a UnionType on one side and a single type of any variant on the
\* other yields one UnionType of the union's members and the single type;
\* likewise `and` and IntersectionType.
C10_SingleJoinsAggregate ==
  red.op # "none" =>
    /\ (red.p1.kind = Aggregate(red.op) /\ Single(red.p3)) =>
         red.p0 = [kind |-> Aggregate(red.op),
                   type_list |-> red.p1.type_list \o <<red.p3>>]
    /\ (Single(red.p1) /\ red.p3.kind = Aggregate(red.op)) =>
         red.p0 = [kind |-> Aggregate(red.op),
                   type_list |-> <<red.p1>> \o red.p3.type_list]

\* ---- diagnostics
Failed == mode = "parse" /\ status \notin {"idle", "running", "eof", "accepted"}

\* C11: every failure of a parse, lexical, grammatical (the unexpected end of
\* the input included) or by duplicate identifiers, is the one diagnostic that
\* carries message, file name, line, column and line text: the SyntaxError
\* that make_syntax_error builds from a token.
C11_OneDiagnosticShape == Failed => status = "SyntaxError"

\* C12: the line number of a diagnostic is that of the lexer, so the lexer's
\* line number is the line of the text being parsed: it is 1 when an
\* invocation starts, whatever was parsed before, and every lexeme read adds
\* the line breaks it contains, those inside string literals and quoted names
\* included.
C12_LinenoIsLineOfText ==
  [][/\ (Parse \/ Tokenize) => lineno' = 1
     /\ \A v \in WsRuns :
          (pending = <<>> /\ t_WHITESPACE(v)) => lineno' = lineno + count(v, "NL")
     /\ \A v \in Matched("NAME") : t_NAME(v) => lineno' = lineno + count(v, "NL")
     /\ \A v \in Matched("STRING") : t_STRING(v) => lineno' = lineno + count(v, "NL")
    ]_vars

\* ---- dedents
\* C15: a whitespace run that dedents by k levels pops k entries and emits k
\* DEDENT tokens before any token of the text after the run: whenever the
\* tokenizer is at the start of a new lexeme, each INDENT emitted is either
\* still on the indent stack or matched by a DEDENT already emitted.
C15_DedentsBeforeNextToken ==
  (Running /\ pending = <<>>) => balance = Len(indent_stack) - 1

\* ---- reentrancy
\* C13: every Parse starts from the state of a new lexer and a new parser
\* (indent stack [0], no open bracket, no queued DEDENT, nothing to
\* reprocess, the grammar at its start), whatever the invocation before left
\* behind; the tokens and the tree of a text therefore depend on the text
\* alone.
C13_ParseStartsClean ==
  [][Parse => /\ indent_stack' = <<0>>
              /\ open_brackets' = 0
              /\ queued_dedents' = 0
              /\ pending' = <<>>
              /\ pstack' = <<"alldefs">>]_vars

\* a text is accepted by a Parse that began on a lexer left unclean
C13_Witness == Accepted /\ left_over /\ deepest >= 2

\* ---- the ellipsis
EllipsisLast(w) ==
  \A i \in DOMAIN w :
    w[i] = "DOTS" =>
      /\ i = Len(w)
      /\ i = 1 \/ (i >= 3 /\ w[i - 1] = "COMMA" /\ w[i - 2] = "NAME")

\* C14: in the parameter list of an accepted funcdef `...` is the last entry,
\* alone or after a named parameter; has_optional is true exactly when the
\* list ends in `...`, and params holds the named parameters only.
C14_EllipsisOnlyLast ==
  (FuncDone /\ fresult.kind = "NameAndSig") =>
    /\ EllipsisLast(written)
    /\ fresult.signature.has_optional = (written # <<>> /\ Last(written) = "DOTS")
    /\ Len(fresult.signature.params) = Len(SelectSeq(written, LAMBDA x : x = "NAME"))

====
